---- MODULE Spec2Model ----
(***************************************************************************)
(* Model of VisionBuf over DMA-BUF (msgq/visionipc/visionbuf_dma-buf.cc):   *)
(* one buffer instance, the kernel heap, the mapper and the OpenCL          *)
(* registrar it talks to.  Kernel, mapper and registrar outcomes are        *)
(* nondeterministic inputs; a failed assert() ends the process.            *)
(***************************************************************************)
EXTENDS Integers, Sequences, FiniteSets, TLC

\* ---------------------------------------------------------------- bounds
\* size_t / uintptr_t are modelled SizeBits wide (64 in the build).
SizeBits == 13
\* largest "ordinary" payload length handed to allocate / import
MaxLen == 2

\* ------------------------------------------------------ program constants
MaxTry == 100
DEVICE_PAGE_SIZE_CL == 4096
PADDING_CL == 0
SizeofU64 == 8
VISIONBUF_SYNC_FROM_DEVICE == 0
VISIONBUF_SYNC_TO_DEVICE == 1
DMA_BUF_SYNC_RW == 3
DMA_BUF_SYNC_START == 0
DMA_BUF_SYNC_END == 4
PROT_RW == 3                       \* PROT_READ | PROT_WRITE
CL_OBJ == 1                        \* a non-null cl_mem

SizeMod == 2 ^ SizeBits
NULL == 0
MAP_FAILED == SizeMod - 1          \* (void *)-1
NoRet == "none"
Stale == 171                       \* 0xAB, a non-zero byte

\* ------------------------------------------------------------ environment
\* what one kernel call can answer: success, -1/EINTR, -1/other errno
KernelResp == {"ok", "eintr", "err"}
\* addresses the mapper may hand out (one page aligned, one not), or failure
MapResults == {DEVICE_PAGE_SIZE_CL, DEVICE_PAGE_SIZE_CL + 4, MAP_FAILED}
\* mmap() of n bytes: a length of 0 is refused (EINVAL)
MmapResults(n) == IF n = 0 THEN {MAP_FAILED} ELSE MapResults
\* descriptors the heap may hand out
HeapFds == {3}
\* status values of the OpenCL runtime (0 = CL_SUCCESS)
ClStatus == {0, -38}
\* lengths a caller passes: ordinary ones and ones near the top of size_t
CallerLens == (0 .. MaxLen) \cup {SizeMod - SizeofU64, SizeMod - 1}
\* handles and mapped lengths a caller of import sets beforehand
ImportFds == {-1, 3}
ImportMapLens == {MaxLen, MaxLen + SizeofU64}
SyncDirs == {VISIONBUF_SYNC_FROM_DEVICE, VISIONBUF_SYNC_TO_DEVICE, 2}

VARIABLES
  len, mmap_len, addr, fd, frame_id, buf_cl,   \* VisionBuf members
  mapped,      \* the region is mapped in this process
  fdOpen,      \* the descriptor in fd is open
  clLive,      \* the OpenCL memory object exists
  region,      \* bytes of the kernel region, as seen through the mapping
  pc,          \* "idle", or inside the HANDLE_EINTR loop of "alloc" / "sync"
  try_cnt,     \* HANDLE_EINTR's counter
  req,         \* the request the loop re-issues
  ncalls,      \* ioctl calls issued by the current operation
  lastResp,    \* answer to the latest ioctl
  calls,       \* mapper / registrar / close calls issued by the current operation
  resps,       \* what the calls of the latest free() answered
  lastOp, ret, \* the latest operation and its return value
  pre,         \* members when the latest operation started
  aborted,     \* an assert() failed
  created,     \* allocate or import has been called
  freedOk,     \* a free() returned 0
  wrote,       \* payload offsets the owner has stored to
  peer         \* a second owner, in another process, of the same kernel region

vars == <<len, mmap_len, addr, fd, frame_id, buf_cl, mapped, fdOpen, clLive,
          region, pc, try_cnt, req, ncalls, lastResp, calls, resps, lastOp, ret,
          pre,
          aborted, created, freedOk, wrote, peer>>

members == <<len, mmap_len, addr, fd, frame_id, buf_cl>>
envVars == <<mapped, fdOpen, clLive, region>>
loopVars == <<pc, try_cnt, req, ncalls, lastResp>>

Fields ==
  [len |-> len, mmap_len |-> mmap_len, addr |-> addr, fd |-> fd,
   frame_id |-> frame_id, buf_cl |-> buf_cl]

\* one call to the mapper, the registrar or close(), with its arguments
Call(fn, h, a, n, prot) == [fn |-> fn, fd |-> h, addr |-> a, n |-> n, prot |-> prot]

\* ---------------------------------------------------------- HANDLE_EINTR
RespRet(r) == IF r = "ok" THEN 0 ELSE -1

\* variants of the loop condition: one retry too many; errno not looked at
EintrContinueOffByOne(r, t) == RespRet(r) = -1 /\ r = "eintr" /\ t <= MaxTry
EintrContinueAnyError(r, t) == RespRet(r) = -1 /\ t < MaxTry

\* while (ret == -1 && errno == EINTR && try_cnt++ < 100)
EintrContinue(r, t) == RespRet(r) = -1 /\ r = "eintr" /\ t < MaxTry

\* try_cnt++ is evaluated only when the first two conjuncts hold
EintrCount(r, t) == IF RespRet(r) = -1 /\ r = "eintr" THEN t + 1 ELSE t

\* ------------------------------------------------------------- helpers
\* variant: room for a 4-byte counter only
AllocLenShort(length) == (length + PADDING_CL + 4) % SizeMod

\* ion_alloc.len = length + PADDING_CL + sizeof(uint64_t), in size_t
AllocLen(length) == (length + PADDING_CL + SizeofU64) % SizeMod

\* (uint8_t*)addr + len + PADDING_CL, in uintptr_t
FrameIdAddr(a, l) == (a + l + PADDING_CL) % SizeMod

\* memset(p, v, n) over the mapped bytes
Memset(bytes, v, n) ==
  [i \in 1 .. Len(bytes) |-> IF i <= n THEN v ELSE bytes[i]]

\* the bytes a freshly mapped region shows: whatever the heap left there
StaleRegions(n) == {[i \in 1 .. n |-> Stale], [i \in 1 .. n |-> 0]}

\* variant: alignment to a word instead of a page
AlignedWord(a) == a % 4 = 0

\* ((uintptr_t)this->addr % DEVICE_PAGE_SIZE_CL) == 0
Aligned(a) == a % DEVICE_PAGE_SIZE_CL = 0

\* variant: START and END exchanged
SyncFlagsSwapped(dir) ==
  IF dir = VISIONBUF_SYNC_FROM_DEVICE
    THEN DMA_BUF_SYNC_END + DMA_BUF_SYNC_RW
    ELSE DMA_BUF_SYNC_START + DMA_BUF_SYNC_RW

\* dma_buf_sync.flags for a direction
SyncFlags(dir) ==
  IF dir = VISIONBUF_SYNC_FROM_DEVICE
    THEN DMA_BUF_SYNC_START + DMA_BUF_SYNC_RW
    ELSE DMA_BUF_SYNC_END + DMA_BUF_SYNC_RW

\* variants: the result of mmap is not checked; the handle is not checked
MapOkAlways(a) == TRUE
HandleOkAlways(h) == TRUE

\* assert(mmap_addr != MAP_FAILED), assert(this->addr != MAP_FAILED)
MapOk(a) == a # MAP_FAILED

\* assert(this->fd >= 0)
HandleOk(h) == h >= 0

\* variant: allocate() also stores a memory object
AllocateFieldsSetCl(f, length, n, a, h) ==
  [f EXCEPT !.len = length, !.mmap_len = n, !.addr = a, !.fd = h,
            !.frame_id = FrameIdAddr(a, length), !.buf_cl = CL_OBJ]

\* the members allocate() stores once the heap and the mapper have answered
AllocateFields(f, length, n, a, h) ==
  [f EXCEPT !.len = length, !.mmap_len = n, !.addr = a, !.fd = h,
            !.frame_id = FrameIdAddr(a, length)]

\* the members import() has stored when it returns
ImportFields(f, a) ==
  [f EXCEPT !.addr = a, !.frame_id = FrameIdAddr(a, f.len)]

\* variant: the cl_mem also lands in fd
InitClFieldsClobberFd(f, obj) == [f EXCEPT !.buf_cl = obj, !.fd = obj]

\* the members init_cl() stores: the cl_mem clCreateBuffer returned
InitClFields(f, obj) == [f EXCEPT !.buf_cl = obj]

\* what import() does to the bytes of the region it maps: nothing
ImportRegion(bytes) == bytes

\* the members take the values of record f
SetMembers(f) ==
  /\ len' = f.len /\ mmap_len' = f.mmap_len /\ addr' = f.addr /\ fd' = f.fd
  /\ frame_id' = f.frame_id /\ buf_cl' = f.buf_cl

\* the second owner before it imports anything
NoPeer ==
  [state |-> "none", len |-> 0, mmap_len |-> 0, addr |-> NULL, fd |-> 0,
   frame_id |-> NULL, calls |-> <<>>, ret |-> NoRet]

\* answers of the calls of one free(); 0 / "none" for a call that was not issued
NoResps == [cl |-> 0, mu |-> "none", cs |-> "none"]

\* ------------------------------------------------------------------ Init
Init ==
  /\ len = 0 /\ mmap_len = 0 /\ addr = NULL /\ fd = 0 /\ frame_id = NULL
  /\ buf_cl = NULL
  /\ mapped = FALSE /\ fdOpen = FALSE /\ clLive = FALSE /\ region = <<>>
  /\ pc = "idle" /\ try_cnt = 0
  /\ req = [kind |-> "none", fd |-> 0, arg |-> 0, length |-> 0]
  /\ ncalls = 0 /\ lastResp = "none" /\ calls = <<>>
  /\ resps = NoResps
  /\ lastOp = "none" /\ ret = NoRet
  /\ pre = [len |-> 0, mmap_len |-> 0, addr |-> NULL, fd |-> 0,
            frame_id |-> NULL, buf_cl |-> NULL]
  /\ aborted = FALSE /\ created = FALSE /\ freedOk = FALSE
  /\ wrote = {} /\ peer = NoPeer

Ready == pc = "idle" /\ ~aborted

NoReq == [kind |-> "none", fd |-> 0, arg |-> 0, length |-> 0]

\* an operation that runs no HANDLE_EINTR loop
NoLoop ==
  /\ pc' = "idle" /\ try_cnt' = 0 /\ req' = NoReq /\ ncalls' = 0
  /\ lastResp' = "none"

\* an operation other than free()
NoFree == resps' = NoResps

\* --------------------------------------------------------------- allocate
\* allocate(length) up to the first ioctl(ION_IOC_ALLOC)
AllocateCall(length) ==
  /\ Ready /\ ~created
  /\ created' = TRUE
  /\ pc' = "alloc" /\ try_cnt' = 0 /\ ncalls' = 0 /\ lastResp' = "none"
  /\ req' = [kind |-> "alloc", fd |-> 0, arg |-> AllocLen(length),
             length |-> length]
  /\ calls' = <<>> /\ lastOp' = "allocate" /\ ret' = NoRet /\ pre' = Fields
  /\ NoFree
  /\ UNCHANGED <<members, envVars, aborted, freedOk, wrote, peer>>

\* one turn of HANDLE_EINTR(ioctl(ion_fd(), ION_IOC_ALLOC, ..)) and, when the
\* loop ends, the rest of allocate
AllocateAttempt ==
  /\ pc = "alloc" /\ ~aborted
  /\ \E r \in KernelResp :
       /\ ncalls' = ncalls + 1 /\ lastResp' = r
       /\ try_cnt' = EintrCount(r, try_cnt)
       /\ IF EintrContinue(r, try_cnt)
            THEN /\ pc' = "alloc"
                 /\ UNCHANGED <<members, envVars, calls, aborted, req>>
            ELSE /\ pc' = "idle" /\ UNCHANGED req
                 /\ IF RespRet(r) # 0
                      THEN \* assert(err == 0)
                           /\ aborted' = TRUE
                           /\ UNCHANGED <<members, envVars, calls>>
                      ELSE \E h \in HeapFds, a \in MmapResults(req.arg),
                              old \in StaleRegions(req.arg) :
                             /\ calls' = <<Call("mmap", h, NULL, req.arg, PROT_RW)>>
                             /\ fdOpen' = TRUE
                             /\ IF ~MapOk(a)
                                  THEN \* assert(mmap_addr != MAP_FAILED)
                                       /\ aborted' = TRUE
                                       /\ UNCHANGED <<members, mapped,
                                                      clLive, region>>
                                  ELSE /\ region' = Memset(old, 0, req.arg)
                                       /\ mapped' = TRUE
                                       /\ SetMembers(AllocateFields(Fields,
                                             req.length, req.arg, a, h))
                                       /\ UNCHANGED <<clLive, aborted>>
  /\ UNCHANGED <<lastOp, ret, pre, resps, created, freedOk, wrote, peer>>

\* ----------------------------------------------------------------- import
\* The caller stores fd, len and mmap_len in the instance, then calls import().
Import(h, l, ml) ==
  /\ Ready /\ ~created
  /\ created' = TRUE
  /\ lastOp' = "import" /\ ret' = NoRet
  /\ pre' = [Fields EXCEPT !.fd = h, !.len = l, !.mmap_len = ml]
  /\ LET f == [Fields EXCEPT !.fd = h, !.len = l, !.mmap_len = ml] IN
     IF ~HandleOk(h)
       THEN \* assert(this->fd >= 0)
            /\ aborted' = TRUE /\ calls' = <<>>
            /\ SetMembers(f)
            /\ UNCHANGED envVars
       ELSE \E a \in MmapResults(ml), data \in StaleRegions(ml) :
              /\ calls' = <<Call("mmap", f.fd, NULL, f.mmap_len, PROT_RW)>>
              /\ IF ~MapOk(a)
                   THEN \* this->addr = mmap(..); assert(this->addr != MAP_FAILED)
                        /\ aborted' = TRUE
                        /\ SetMembers([f EXCEPT !.addr = a])
                        /\ UNCHANGED envVars
                   ELSE /\ SetMembers(ImportFields(f, a))
                        /\ mapped' = TRUE /\ fdOpen' = TRUE
                        /\ region' = ImportRegion(data)
                        /\ UNCHANGED <<clLive, aborted>>
  /\ NoLoop /\ NoFree
  /\ UNCHANGED <<freedOk, wrote, peer>>

\* ---------------------------------------------------------------- init_cl
InitCl ==
  /\ Ready /\ created
  /\ lastOp' = "init_cl" /\ ret' = NoRet /\ pre' = Fields
  /\ IF ~Aligned(addr)
       THEN \* assert(((uintptr_t)this->addr % DEVICE_PAGE_SIZE_CL) == 0)
            /\ aborted' = TRUE /\ calls' = <<>>
            /\ UNCHANGED <<members, clLive>>
       ELSE \E e \in ClStatus :
              /\ calls' = <<Call("clCreateBuffer", fd, addr, len, 0)>>
              /\ SetMembers(InitClFields(Fields, IF e = 0 THEN CL_OBJ ELSE NULL))
              /\ clLive' = (clLive \/ e = 0)
              /\ aborted' = (e # 0)             \* assert(err == 0)
  /\ NoLoop /\ NoFree
  /\ UNCHANGED <<mapped, fdOpen, region, created, freedOk, wrote, peer>>

\* ------------------------------------------------------------------- sync
\* what ioctl(this->fd, DMA_BUF_IOCTL_SYNC, ..) can answer: a closed
\* descriptor is refused (EBADF)
SyncResp == IF fdOpen THEN KernelResp ELSE {"err"}

\* sync(dir) up to the first ioctl
SyncCall(dir) ==
  /\ Ready /\ created
  /\ lastOp' = "sync" /\ ret' = NoRet /\ pre' = Fields /\ calls' = <<>>
  /\ try_cnt' = 0 /\ ncalls' = 0 /\ lastResp' = "none"
  /\ IF dir # VISIONBUF_SYNC_FROM_DEVICE /\ dir # VISIONBUF_SYNC_TO_DEVICE
       THEN \* assert(dir == FROM_DEVICE || dir == TO_DEVICE)
            /\ aborted' = TRUE /\ pc' = "idle"
            /\ req' = [NoReq EXCEPT !.length = dir]
       ELSE /\ pc' = "sync"
            /\ req' = [kind |-> "sync", fd |-> fd, arg |-> SyncFlags(dir),
                       length |-> dir]
            /\ UNCHANGED aborted
  /\ NoFree
  /\ UNCHANGED <<members, envVars, created, freedOk, wrote, peer>>

\* one turn of HANDLE_EINTR(ioctl(this->fd, DMA_BUF_IOCTL_SYNC, &sync))
SyncAttempt ==
  /\ pc = "sync" /\ ~aborted
  /\ \E r \in SyncResp :
       /\ ncalls' = ncalls + 1 /\ lastResp' = r
       /\ try_cnt' = EintrCount(r, try_cnt)
       /\ IF EintrContinue(r, try_cnt)
            THEN pc' = "sync" /\ UNCHANGED ret
            ELSE pc' = "idle" /\ ret' = RespRet(r)
  /\ UNCHANGED <<members, envVars, req, calls, resps, lastOp, pre, aborted,
                 created, freedOk, wrote, peer>>

\* ------------------------------------------------------------------- free
\* variants of free(): unmapping before unregistering; going on after a failed
\* clReleaseMemObject; retrying an interrupted munmap
FreeStepsUnmapFirst(b, rcl, rmu, rcs) ==
  IF RespRet(rmu) # 0 THEN <<"munmap">>
  ELSE IF b # NULL /\ rcl # 0 THEN <<"munmap", "clReleaseMemObject">>
  ELSE <<"munmap">> \o (IF b # NULL THEN <<"clReleaseMemObject">> ELSE <<>>)
       \o <<"close">>
FreeStepsIgnoreCl(b, rcl, rmu, rcs) ==
  (IF b # NULL THEN <<"clReleaseMemObject">> ELSE <<>>)
  \o (IF RespRet(rmu) # 0 THEN <<"munmap">> ELSE <<"munmap", "close">>)
FreeStepsRetry(b, rcl, rmu, rcs) ==
  IF b # NULL /\ rcl # 0
    THEN <<"clReleaseMemObject">>
    ELSE (IF b # NULL THEN <<"clReleaseMemObject">> ELSE <<>>)
         \o (IF rmu = "eintr" THEN <<"munmap", "munmap">>
             ELSE IF RespRet(rmu) # 0 THEN <<"munmap">>
             ELSE <<"munmap", "close">>)

\* the calls one free() issues, in order, given what each call answers
FreeSteps(b, rcl, rmu, rcs) ==
  IF b # NULL /\ rcl # 0
    THEN <<"clReleaseMemObject">>
    ELSE (IF b # NULL THEN <<"clReleaseMemObject">> ELSE <<>>)
         \o (IF RespRet(rmu) # 0 THEN <<"munmap">> ELSE <<"munmap", "close">>)

\* the value free() returns
FreeRet(b, rcl, rmu, rcs) ==
  IF b # NULL /\ rcl # 0 THEN rcl
  ELSE IF RespRet(rmu) # 0 THEN RespRet(rmu)
  ELSE RespRet(rcs)

Issued(steps, fn) == \E i \in 1 .. Len(steps) : steps[i] = fn

FreeCall(fn) ==
  IF fn = "clReleaseMemObject" THEN Call(fn, 0, buf_cl, 0, 0)
  ELSE IF fn = "munmap" THEN Call(fn, 0, addr, mmap_len, 0)
  ELSE Call(fn, fd, NULL, 0, 0)

\* close() on a descriptor that is not open fails (EBADF)
CloseResp == IF fdOpen THEN KernelResp ELSE {"err"}

Free ==
  /\ Ready /\ created
  /\ \E rcl \in ClStatus, rmu \in KernelResp, rcs \in CloseResp :
       LET steps == FreeSteps(buf_cl, rcl, rmu, rcs) IN
       /\ calls' = [i \in 1 .. Len(steps) |-> FreeCall(steps[i])]
       /\ resps' = [cl |-> IF Issued(steps, "clReleaseMemObject") THEN rcl ELSE 0,
                    mu |-> IF Issued(steps, "munmap") THEN rmu ELSE "none",
                    cs |-> IF Issued(steps, "close") THEN rcs ELSE "none"]
       /\ clLive' = (clLive /\ ~(Issued(steps, "clReleaseMemObject") /\ rcl = 0))
       /\ mapped' = (mapped /\ ~(Issued(steps, "munmap") /\ rmu = "ok"))
       /\ fdOpen' = (fdOpen /\ ~(Issued(steps, "close") /\ rcs = "ok"))
       /\ ret' = FreeRet(buf_cl, rcl, rmu, rcs)
       /\ freedOk' = (freedOk \/ FreeRet(buf_cl, rcl, rmu, rcs) = 0)
  /\ lastOp' = "free" /\ pre' = Fields
  /\ NoLoop
  /\ UNCHANGED <<members, region, aborted, created, wrote, peer>>

\* ------------------------------------------------------ access by the owner
\* the owner stores a byte of payload through base address + i - 1
Write(i) ==
  /\ Ready /\ mapped
  /\ i <= len /\ i <= Len(region) /\ region[i] # Stale
  /\ region' = [region EXCEPT ![i] = Stale]
  /\ wrote' = wrote \cup {i}
  /\ lastOp' = "write" /\ ret' = NoRet /\ pre' = Fields /\ calls' = <<>>
  /\ NoLoop /\ NoFree
  /\ UNCHANGED <<members, mapped, fdOpen, clLive, aborted, created, freedOk,
                 peer>>

Next ==
  \/ \E l \in CallerLens : AllocateCall(l)
  \/ AllocateAttempt
  \/ \E h \in ImportFds, l \in 0 .. MaxLen, ml \in ImportMapLens : Import(h, l, ml)
  \/ InitCl
  \/ \E d \in SyncDirs : SyncCall(d)
  \/ SyncAttempt
  \/ Free
  \/ \E i \in 1 .. MaxLen : Write(i)

Spec == Init /\ [][Next]_vars

\* the HANDLE_EINTR loops and the owner's calls are not starved
FairSpec == Spec /\ WF_vars(SyncAttempt) /\ WF_vars(AllocateAttempt)

\* ------------------------------------------------- a second owner (import)
\* The second owner receives the first owner's handle and lengths once the
\* first owner's sync(TO_DEVICE) has returned 0, stores them in its own
\* instance and calls import().
PeerImport ==
  /\ Ready /\ mapped /\ fdOpen /\ peer.state = "none"
  /\ lastOp = "sync" /\ req.length = VISIONBUF_SYNC_TO_DEVICE /\ ret = 0
  /\ LET f == [len |-> len, mmap_len |-> mmap_len, addr |-> NULL, fd |-> fd,
               frame_id |-> NULL, buf_cl |-> NULL] IN
     IF ~HandleOk(f.fd)
       THEN /\ peer' = [peer EXCEPT !.state = "aborted", !.len = f.len,
                                    !.mmap_len = f.mmap_len, !.fd = f.fd]
            /\ UNCHANGED region
       ELSE \E a \in MmapResults(f.mmap_len) :
              LET g == IF MapOk(a) THEN ImportFields(f, a)
                                   ELSE [f EXCEPT !.addr = a] IN
              /\ peer' = [state |-> IF MapOk(a) THEN "imported" ELSE "aborted",
                          len |-> g.len, mmap_len |-> g.mmap_len,
                          addr |-> g.addr, fd |-> g.fd, frame_id |-> g.frame_id,
                          calls |-> <<Call("mmap", f.fd, NULL, f.mmap_len, PROT_RW)>>,
                          ret |-> NoRet]
              /\ region' = IF MapOk(a) THEN ImportRegion(region) ELSE region
  /\ UNCHANGED <<members, mapped, fdOpen, clLive, loopVars, calls, resps,
                 lastOp, ret, pre, aborted, created, freedOk, wrote>>

\* The second owner's sync(dir): r is the answer that ends its HANDLE_EINTR
\* loop, whose status sync returns.
PeerSync(dir) ==
  /\ peer.state \in {"imported", "synced"}
  /\ dir \in {VISIONBUF_SYNC_FROM_DEVICE, VISIONBUF_SYNC_TO_DEVICE}
  /\ \E r \in KernelResp :
       peer' = [peer EXCEPT
                  !.ret = RespRet(r),
                  !.state = IF dir = VISIONBUF_SYNC_FROM_DEVICE /\ RespRet(r) = 0
                              THEN "synced" ELSE "imported"]
  /\ UNCHANGED <<members, envVars, loopVars, calls, resps, lastOp, ret, pre,
                 aborted, created, freedOk, wrote>>

\* the first owner allocates, writes and syncs; then the second owner imports
\* and syncs
NextShare ==
  \/ \E l \in CallerLens : AllocateCall(l)
  \/ AllocateAttempt
  \/ \E i \in 1 .. MaxLen : Write(i)
  \/ \E d \in SyncDirs : SyncCall(d)
  \/ SyncAttempt
  \/ PeerImport
  \/ \E d \in SyncDirs : PeerSync(d)

ShareSpec == Init /\ [][NextShare]_vars

\* =================================================================== claims
Returned(op) == lastOp = op /\ pc = "idle" /\ ~aborted
CallFns == [i \in 1 .. Len(calls) |-> calls[i].fn]
CountCalls(fn) == Cardinality({i \in 1 .. Len(calls) : calls[i].fn = fn})
Rank(fn) ==
  IF fn = "clReleaseMemObject" THEN 1 ELSE IF fn = "munmap" THEN 2 ELSE 3

\* C1: for every byte_length > 0, an allocate whose heap and map calls succeed
\* leaves mapped_length >= byte_length, a non-null base_address, a non-negative
\* sharable_handle and every byte of the mapped region, hence every byte of
\* [0, byte_length), equal to zero.
C1_AllocateZeroFilled ==
  (Returned("allocate") /\ req.length > 0) =>
     /\ mmap_len >= len
     /\ addr # NULL
     /\ fd >= 0
     /\ Len(region) = mmap_len
     /\ \A i \in 1 .. Len(region) : region[i] = 0
     /\ \A i \in 1 .. len : i <= Len(region) /\ region[i] = 0

\* C2: a release of a buffer that was never registered issues no unregister
\* call; a release of a registered buffer issues unregister first, and the calls
\* of any release come in the order unregister, unmap, close.
C2_ReleaseOrder ==
  lastOp = "free" =>
     /\ pre.buf_cl = NULL => CountCalls("clReleaseMemObject") = 0
     /\ pre.buf_cl # NULL => Len(calls) >= 1 /\ calls[1].fn = "clReleaseMemObject"
     /\ \A i, j \in 1 .. Len(calls) :
          i < j => Rank(calls[i].fn) < Rank(calls[j].fn)

C2_Witness ==
  /\ lastOp = "free" /\ pre.buf_cl # NULL
  /\ CallFns = <<"clReleaseMemObject", "munmap", "close">>

\* C3: when the release of the compute memory object fails, release returns
\* that status, issues neither unmap nor close, and the region stays mapped and
\* the handle open.
C3_ClFailureAborts ==
  [][(lastOp' = "free" /\ buf_cl # NULL /\ resps'.cl # 0)
       => /\ ret' = resps'.cl
          /\ [i \in 1 .. Len(calls') |-> calls'[i].fn] = <<"clReleaseMemObject">>
          /\ mapped' = mapped /\ fdOpen' = fdOpen]_vars

C3_Witness ==
  /\ lastOp = "free" /\ pre.buf_cl # NULL /\ resps.cl = -38 /\ ret = -38
  /\ mapped /\ fdOpen

\* C4: in a release whose compute-object step succeeds or does not apply, both
\* the unmap and the close are attempted, also when the unmap fails.
C4_AllStepsRun ==
  (lastOp = "free" /\ (pre.buf_cl = NULL \/ resps.cl = 0)) =>
     CountCalls("munmap") = 1 /\ CountCalls("close") = 1

\* C5: after a release that returned success the instance holds no live
\* base_address, compute_memory_object or sharable_handle, and a later sync or
\* registration issues no kernel, mapper or registrar call.
C5_InvalidatedAfterRelease ==
  freedOk =>
     /\ addr = NULL /\ buf_cl = NULL /\ fd < 0
     /\ lastOp \in {"sync", "init_cl"} => calls = <<>> /\ ncalls = 0

\* C6: in every state of a live process, base_address is non-null exactly when
\* the region is mapped.
C6_AddrIffMapped == ~aborted => ((addr # NULL) <=> mapped)

\* C7: a sync call terminates; it issues at most MaxTry + 1 kernel calls, goes
\* on only after an interrupted call, returns -1 when every call was
\* interrupted and 0 as soon as one call succeeds.
C7_SyncBound ==
  lastOp = "sync" =>
     /\ ncalls <= MaxTry + 1
     /\ (pc = "sync" /\ ncalls > 0) => lastResp = "eintr"
     /\ (pc = "idle" /\ ~aborted) =>
          /\ lastResp = "ok" => ret = 0
          /\ lastResp = "eintr" => ret = -1 /\ ncalls = MaxTry + 1
          /\ ncalls >= 1

C7_SyncTerminates == []C7_SyncBound /\ ((pc = "sync") ~> (pc = "idle"))

C7_Witness ==
  Returned("sync") /\ lastResp = "eintr" /\ ncalls = MaxTry + 1 /\ ret = -1

\* C8: a kernel sync call that fails for another reason than a signal is the
\* last call of that sync (the only one when none was interrupted before);
\* sync returns -1 without aborting and changes no member.
C8_SyncErrorSurfaced ==
  (lastOp = "sync" /\ lastResp = "err") =>
     /\ pc = "idle" /\ ~aborted /\ ret = -1
     /\ ncalls = try_cnt + 1
     /\ Fields = pre

C8_Witness ==
  Returned("sync") /\ lastResp = "err" /\ ncalls = 1 /\ fdOpen /\ ret = -1

C10_MisalignedAborts ==
  /\ addr % 4096 # 0 => buf_cl = NULL
  /\ (lastOp = "init_cl" /\ pre.addr % 4096 # 0) =>
        /\ aborted
        /\ calls = <<>>
        /\ buf_cl = NULL
        /\ Fields = pre

C10_Witness ==
  lastOp = "init_cl" /\ pre.addr = DEVICE_PAGE_SIZE_CL + 4 /\ mapped /\ aborted

\* C11: once the second owner has imported the first owner's handle with the
\* same lengths and its sync(FROM_DEVICE) has returned 0, it reads at every
\* offset of [0, byte_length) the byte the first owner wrote there, and zero
\* where the first owner wrote nothing; its import issued one map call and
\* nothing else.
C11_RoundTrip ==
  peer.state = "synced" =>
     /\ peer.calls = <<Call("mmap", fd, NULL, mmap_len, PROT_RW)>>
     /\ peer.len = len /\ peer.mmap_len = mmap_len
     /\ \A i \in 1 .. peer.len :
          /\ i <= peer.mmap_len /\ i <= Len(region)
          /\ region[i] = IF i \in wrote THEN Stale ELSE 0

\* C12: compute_memory_object is non-null only if base_address is non-null,
\* and only init_cl ever changes it (allocate, import and sync never set it).
C12_ClOnlyByInitCl ==
  /\ [](buf_cl # NULL => addr # NULL)
  /\ [][buf_cl' # buf_cl => (lastOp' = "init_cl" /\ pc = "idle")]_vars

C12_Witness == Returned("sync") /\ buf_cl # NULL /\ addr # NULL /\ ret = 0

\* C13: allocate(0) either aborts or yields byte_length = 0 with a mapping of
\* at least padding + 8 bytes and the counter at offset padding, inside it.
C13_AllocateZero ==
  (lastOp = "allocate" /\ pc = "idle" /\ req.length = 0 /\ ~aborted) =>
     /\ len = 0
     /\ mmap_len >= PADDING_CL + 8
     /\ frame_id = addr + PADDING_CL
     /\ frame_id + 8 <= addr + mmap_len
     /\ Len(region) = mmap_len

C13_Witness == Returned("allocate") /\ req.length = 0 /\ mapped /\ len = 0

\* C14: sync asks the kernel, on the buffer's own handle, for START|RW when
\* the direction is FROM_DEVICE and END|RW when it is TO_DEVICE; any other
\* direction aborts before a kernel call.
C14_SyncRequest ==
  lastOp = "sync" =>
     /\ req.length \notin {VISIONBUF_SYNC_FROM_DEVICE, VISIONBUF_SYNC_TO_DEVICE}
          => aborted /\ ncalls = 0 /\ pc = "idle"
     /\ req.length \in {VISIONBUF_SYNC_FROM_DEVICE, VISIONBUF_SYNC_TO_DEVICE}
          => /\ ~aborted /\ req.kind = "sync" /\ req.fd = fd
             /\ req.arg % 4 = DMA_BUF_SYNC_RW
             /\ req.arg - DMA_BUF_SYNC_RW =
                  (IF req.length = VISIONBUF_SYNC_FROM_DEVICE
                     THEN DMA_BUF_SYNC_START ELSE DMA_BUF_SYNC_END)

C14_Witness ==
  /\ Returned("sync") /\ req.length = VISIONBUF_SYNC_FROM_DEVICE
  /\ req.arg = 3 /\ ncalls >= 1

\* C15: every step of a sync leaves all six members and the region's bytes
\* unchanged; a registration that succeeds leaves byte_length, mapped_length,
\* base_address, sharable_handle and frame_counter_ref unchanged.
C15_SyncAndRegisterFrame ==
  [][/\ lastOp' = "sync" => (members' = members /\ region' = region)
     /\ (lastOp' = "init_cl" /\ ~aborted') =>
          /\ len' = len /\ mmap_len' = mmap_len /\ addr' = addr /\ fd' = fd
          /\ frame_id' = frame_id]_vars

C15_Witness == lastOp = "init_cl" /\ ~aborted /\ buf_cl # NULL /\ fd = pre.fd

\* C16: import with a negative handle aborts before any map call; with a
\* non-negative handle it issues exactly one map call, of mapped_length bytes,
\* read/write, on that handle, no heap call, and keeps the byte_length,
\* mapped_length and handle the caller stored.
C16_ImportHandle ==
  lastOp = "import" =>
     /\ pre.fd < 0 => aborted /\ calls = <<>>
     /\ pre.fd >= 0 =>
          calls = <<Call("mmap", pre.fd, NULL, pre.mmap_len, PROT_RW)>>
     /\ ncalls = 0
     /\ len = pre.len /\ mmap_len = pre.mmap_len /\ fd = pre.fd

C16_Witness == lastOp = "import" /\ pre.fd < 0 /\ aborted /\ ~mapped

\* C17: allocate aborts when the heap denies the request, without a map call,
\* and when the map call fails; an aborted allocate has assigned no member,
\* and an allocate that returns has a granted request and a real mapping.
C17_AllocateFatal ==
  (lastOp = "allocate" /\ pc = "idle") =>
     /\ lastResp # "ok" => aborted /\ calls = <<>>
     /\ aborted => Fields = pre /\ ~mapped
     /\ ~aborted => lastResp = "ok" /\ addr # MAP_FAILED /\ mapped

C17_Witness ==
  lastOp = "allocate" /\ pc = "idle" /\ aborted /\ Len(calls) = 1 /\ fdOpen

\* C18: after an allocate or import that returned, mapped_length >=
\* byte_length + padding + 8 and the 8 bytes of the frame counter lie inside
\* the mapping, after the payload.
C18_CounterInsideMapping ==
  (Returned("allocate") \/ Returned("import")) =>
     /\ mmap_len >= len + PADDING_CL + 8
     /\ frame_id = addr + len + PADDING_CL
     /\ frame_id + 8 <= addr + mmap_len

\* C19: over any sequence of release calls no resource is released twice:
\* clReleaseMemObject is called only on a live memory object, munmap succeeds
\* only on a mapped region and close only on an open handle.
C19_ReleasedOnce ==
  [][lastOp' = "free" =>
       /\ (\E i \in 1 .. Len(calls') : calls'[i].fn = "clReleaseMemObject")
            => clLive
       /\ resps'.mu = "ok" => mapped
       /\ resps'.cs = "ok" => fdOpen]_vars
====
